---- MODULE Spec2Model ----
(***************************************************************************)
(* State-machine model of the generate-execute-repair pipeline:            *)
(* MainPipeline.run / process_steps (main_pipeline.py), the per-step loop  *)
(* StepManager.execute_and_fix_step (step_manager.py), the assembler and   *)
(* its loop (solution_assembler.py) and the SSH channel (ssh_manager.py).  *)
(* The code-generation oracle, the interpreter that runs an artifact, the  *)
(* file system and the SSH transport are the environment: every answer     *)
(* they can give is an input chosen with \E.                               *)
(***************************************************************************)
EXTENDS Integers, Sequences, FiniteSets, TLC

\* Bounds of the model.
MaxSteps == 3
MaxRetries == 2
MaxFiles == 3
MaxRuns == 3

----------------------------------------------------------------------------
\* Source texts.  A text is abstracted to what the code inspects with ast
\* and to what the interpreter needs to run it:
\*   syn  - ast.parse accepts it
\*   cls  - the first top-level ClassDef: "Step" is Step<ordinal> of the step
\*          the text was produced for, "Other" any other name, "none" no class
\*          (extract_class_name looks at nothing else: not at further classes,
\*          not at the methods of the class)
\*   main - the run-as-script guard: "none", "std" (the guard add_main_block
\*          appends: step = Step<n>(); step.execute()), "own" (any other guard
\*          add_main_block recognises: an if whose test is a comparison with
\*          the name __name__ on its left and == or is), "unseen" (a guard it
\*          does not recognise, such as "__main__" == __name__), "unseen+std"
\*          (an unrecognised guard followed by the appended one)
NoText == [kind |-> "none"]
EmptyText == [kind |-> "empty"]
NoFile == [kind |-> "nofile"]

Text(syn, cls, main) == [kind |-> "text", syn |-> syn, cls |-> cls, main |-> main]

BrokenText == Text(FALSE, "none", "none")

\* Non-empty texts the generation oracle is taken to return.
GeneratedTexts ==
    { Text(TRUE, "Step", "none"), Text(TRUE, "Other", "own"),
      Text(TRUE, "none", "none"), BrokenText }

\* Non-empty texts the repair oracle is taken to return.
CorrectedTexts ==
    { Text(TRUE, "Step", "std"), Text(TRUE, "none", "none"), BrokenText }

\* What one oracle call can return: None, "" (after strip) or a non-empty text.
GenerateAnswers == {NoText, EmptyText} \cup GeneratedTexts
RepairAnswers == {NoText, EmptyText} \cup CorrectedTexts

\* Python truthiness of an Optional[str].
Truthy(t) == t.kind = "text"

\* has_main: some ast.If of the parsed text has the test add_main_block
\* looks for.
HasMain(t) == t.main \in {"std", "own", "unseen+std"}

\* The text with the standard guard appended to it.
Appended(t) == [t EXCEPT !.main = IF @ = "none" THEN "std" ELSE "unseen+std"]

\* A normalisation that appends the guard without looking for one.
AddMainBlockAlways(t) ==
    IF t.kind # "text" THEN t
    ELSE IF ~t.syn THEN t
    ELSE IF HasMain(t) THEN [t EXCEPT !.main = "twice"]
    ELSE Appended(t)

AddMainBlock(t) ==
    IF t.kind # "text" THEN t
    ELSE IF ~t.syn THEN t
    ELSE IF HasMain(t) THEN t
    ELSE Appended(t)

\* A search that finds a class in every text.
ExtractClassNameAny(t) == "Step"

\* A search that only accepts a class named Step<ordinal>.
ExtractClassNameStrict(t) ==
    IF t.kind = "text" /\ t.syn /\ t.cls = "Step" THEN t.cls ELSE "none"

ExtractClassName(t) ==
    IF t.kind = "text" /\ t.syn THEN t.cls ELSE "none"

\* A text the interpreter can only fail on: a syntax error, or the standard
\* guard instantiating Step<n> when no class of that name is defined.
MustFail(t) ==
    /\ t.kind = "text"
    /\ \/ ~t.syn
       \/ t.main \in {"std", "unseen+std"} /\ t.cls # "Step"

----------------------------------------------------------------------------
\* File names.  f'step_{n:03}.py' is modelled by its digit string.
RECURSIVE Digits(_)
Digits(n) == IF n < 10 THEN <<n>> ELSE Digits(n \div 10) \o <<n % 10>>

RECURSIVE ZeroPad(_, _)
ZeroPad(ds, width) == IF Len(ds) >= width THEN ds ELSE ZeroPad(<<0>> \o ds, width)

\* A file name that only tells odd ordinals from even ones.
StepFilenameParity(n) == ZeroPad(<<n % 2>>, 3)

StepFilename(n) == ZeroPad(Digits(n), 3)

RECURSIVE DigitsValue(_)
DigitsValue(ds) ==
    IF ds = <<>> THEN 0 ELSE 10 * DigitsValue(SubSeq(ds, 1, Len(ds) - 1)) + ds[Len(ds)]

StepPaths == {StepFilename(n) : n \in 1..MaxSteps}

----------------------------------------------------------------------------
\* Configuration.
Server(er, steps) == [execute_remotely |-> er, steps_to_execute |-> steps]

ServerLists ==
    { <<Server(TRUE, {2, 3})>>,
      <<Server(TRUE, {}), Server(FALSE, {2}), Server(TRUE, {2, 3}), Server(TRUE, {3})>> }

\* The index of the first target listing the ordinal, 0 when none does.
FirstListing(servers, n) ==
    IF \E i \in 1..Len(servers) : n \in servers[i].steps_to_execute
    THEN CHOOSE i \in 1..Len(servers) :
            /\ n \in servers[i].steps_to_execute
            /\ \A j \in 1..(i - 1) : n \notin servers[j].steps_to_execute
    ELSE 0

\* A scan that keeps the last target listing the ordinal.
SelectServerLast(servers, n) ==
    IF \E i \in 1..Len(servers) : n \in servers[i].steps_to_execute
    THEN CHOOSE i \in 1..Len(servers) :
            /\ n \in servers[i].steps_to_execute
            /\ \A j \in (i + 1)..Len(servers) : n \notin servers[j].steps_to_execute
    ELSE 0

SelectServer(servers, n) == FirstListing(servers, n)

\* A selection that is remote as soon as any target listing the ordinal has
\* execute_remotely true.
SelectRemotelyAnyListing(servers, n) ==
    \E i \in 1..Len(servers) :
        n \in servers[i].steps_to_execute /\ servers[i].execute_remotely

\* A selection that never reads the target's execute_remotely flag.
SelectRemotelyNever(servers, n) == FALSE

SelectRemotely(servers, n) ==
    IF FirstListing(servers, n) = 0 THEN FALSE
    ELSE servers[FirstListing(servers, n)].execute_remotely

\* A branch taken whenever a descriptor was given.
UseRemoteIgnoresFlag(er, sc) == sc # 0

\* run_step takes the remote branch when execute_remotely and server_config.
UseRemote(er, sc) == er /\ sc # 0

----------------------------------------------------------------------------
VARIABLES
    max_retries,        \* config: max_retries
    remote_servers,     \* config: remote_servers
    plan_len,           \* number of steps of the loaded plan
    plan_idx,           \* process_steps: position of the for loops in the plan
    pc,                 \* position of the run
    exit_code,          \* -1 while running, else the process exit status
    step_counter,       \* process_steps: step_counter
    executed_steps,     \* process_steps: executed_steps (paths)
    step_code,          \* process_steps: step_code between generation and save
    files,              \* steps directory: path -> content
    retries,            \* the running loop's retries
    execute_remotely,   \* backend selection of the current step
    server_config,      \* index of the selected target, 0 for None
    success,            \* result of the loop that has just returned
    output_or_error,    \* text of the last failed execution
    main_file,          \* solution directory: content of main.py
    deploy_idx,         \* run: position of the loop over remote_servers
    \* history of the run, read by the properties only
    visited,            \* ordinals whose processing began, in order
    execs,              \* executions of the current artifact
    fix_calls,          \* repair-oracle calls for the current artifact
    writes,             \* writes to the current artifact after its first save
    outcome,            \* how the current step / composite ended
    last_backend,       \* backend of the current artifact's last execution
    ssh_client,         \* SSH client of the current artifact's last remote call
    loop_ok,            \* ordinals whose loop returned True
    unread,             \* paths assemble_solution could not read
    last_transfer,      \* the last solution transfer: target (0: none yet), result
    transport,          \* the last remote call: target, connections, copies
    remote_command,     \* what the last remote run's command produced
    transfer_targets,   \* targets a solution transfer was attempted to, in order
    failed_transfers,   \* targets whose solution transfer returned False
    \* DockerManager and the Docker daemon
    image,              \* the image named image_name at the daemon
    container,          \* the container named container_name at the daemon
    docker_pc,          \* position of run_container
    docker_runs,        \* calls of run_container so far
    docker_result,      \* what the last call of run_container returned
    found,              \* this call's containers.get found a container
    removed,            \* this call removed the container it found
    \* one call of generate_step_code, fix_code_with_gpt4 or fix_main_with_gpt4
    library,            \* the installed openai package: "v0" (before 1.0) or "v1"
    oracle_fn,          \* the function called
    api_pc,             \* position of the call: "off", "idle", "try", "done"
    api_retries,        \* the call's own retries counter
    api_attempts,       \* times the try body was entered
    api_signal,         \* what the last try body did
    api_result          \* what the call returned, or that an exception left it

vars == <<max_retries, remote_servers, plan_len, plan_idx, pc, exit_code, step_counter,
          executed_steps, step_code, files, retries, execute_remotely,
          server_config, success, output_or_error, main_file, deploy_idx,
          visited, execs, fix_calls, writes, outcome, last_backend, ssh_client,
          loop_ok, unread, last_transfer, transport, remote_command, transfer_targets, failed_transfers,
          image, container, docker_pc, docker_runs, docker_result, found, removed,
          library, oracle_fn, api_pc, api_retries, api_attempts, api_signal,
          api_result>>

\* What an SSHManager did for the call it was made for: connect() calls,
\* transfer_file calls and the files that arrived.
Transport(server, connects, attempts, copied) ==
    [server |-> server, connects |-> connects, attempts |-> attempts, copied |-> copied]

NoTransport == Transport(0, 0, 0, 0)

\* What SSHManager.execute_command met: whether exec_command returned (ran),
\* the exit status of the remote command (0, or 1 for any other), and the
\* decoded stdout and stderr; when exec_command raised, err holds the text of
\* the exception.
RemoteCommand(ran, status, out, err) ==
    [ran |-> ran, status |-> status, out |-> out, err |-> err]

NoCommand == RemoteCommand(FALSE, 0, "", "")

config_vars == <<max_retries, remote_servers>>
docker_vars == <<image, container, docker_pc, docker_runs, docker_result, found, removed>>
step_vars == <<plan_idx, step_counter, executed_steps, step_code, files,
               execute_remotely, server_config, visited, loop_ok>>
solution_vars == <<main_file, deploy_idx, unread, last_transfer, transfer_targets, failed_transfers>>
loop_hist == <<execs, fix_calls, writes>>
oracle_vars == <<library, oracle_fn, api_pc, api_retries, api_attempts, api_signal,
                 api_result>>

\* The result of run_container: (success, logs or message).
DockerResult(ok, why) == [ok |-> ok, why |-> why]

NoDockerResult == DockerResult(FALSE, "none")

\* MainPipeline.run never calls run_docker_container: no DockerManager is made.
NoDocker ==
    /\ image = "absent"
    /\ container = "absent"
    /\ docker_pc = "off"
    /\ docker_runs = 0
    /\ docker_result = NoDockerResult
    /\ found = FALSE
    /\ removed = FALSE

\* The pipeline run takes every oracle call as one step that returns an
\* answer; the attempts inside a call are followed on their own (OracleSpec).
NoOracle ==
    /\ library = "none"
    /\ oracle_fn = "none"
    /\ api_pc = "off"
    /\ api_retries = 0
    /\ api_attempts = 0
    /\ api_signal = "none"
    /\ api_result = [kind |-> "pending"]

PipelineInit ==
    /\ plan_len = 0
    /\ plan_idx = 1
    /\ pc = "load"
    /\ exit_code = -1
    /\ step_counter = 1
    /\ executed_steps = <<>>
    /\ step_code = NoText
    /\ files = [p \in StepPaths |-> NoFile]
    /\ retries = 0
    /\ execute_remotely = FALSE
    /\ server_config = 0
    /\ success = FALSE
    /\ output_or_error = ""
    /\ main_file = NoFile
    /\ deploy_idx = 1
    /\ last_transfer = [server |-> 0, ok |-> FALSE]
    /\ unread = {}
    /\ visited = <<>>
    /\ execs = 0
    /\ fix_calls = 0
    /\ writes = 0
    /\ outcome = "none"
    /\ last_backend = "none"
    /\ ssh_client = "none"
    /\ transport = NoTransport
    /\ remote_command = NoCommand
    /\ transfer_targets = <<>>
    /\ failed_transfers = {}
    /\ loop_ok = {}

Init ==
    /\ max_retries \in 0..MaxRetries
    /\ remote_servers \in ServerLists
    /\ PipelineInit
    /\ NoDocker
    /\ NoOracle

----------------------------------------------------------------------------
\* Answers of the environment.

\* A write to a file: done, or refused with IOError (content kept).
WriteOutcomes == {"ok", "unwritten"}

Written(old, new, w) == IF w = "ok" THEN new ELSE old

\* (success, output_or_error) of the local branch of run_step.
LocalResults(t) ==
    { [ok |-> FALSE, text |-> "stderr"],
      [ok |-> FALSE, text |-> "Execution failed."] }
    \cup (IF MustFail(t) THEN {}
          ELSE { [ok |-> TRUE, text |-> "stdout"], [ok |-> FALSE, text |-> ""] })

\* The remote branch of run_step: the connection, the copy, then stderr of
\* the remote command decide; ssh is the state the client is left in.
\* connects, attempts and copied count the connect() calls, the
\* transfer_file calls and the files that arrived.
RemoteResult(ok, text, ssh, connects, attempts, copied, command) ==
    [ok |-> ok, text |-> text, ssh |-> ssh,
     connects |-> connects, attempts |-> attempts, copied |-> copied,
     command |-> command]

\* What `python <remote path>` can produce at the target. The interpreter
\* writes a traceback to stderr and exits non-zero for a text that cannot
\* run; any other text may also write to stderr and exit with status 0
\* (a warning), or exit non-zero without writing to stderr (sys.exit(1)).
\* exec_command itself may raise.
RemoteCommands(t) ==
    { RemoteCommand(TRUE, 1, "", "stderr"),
      RemoteCommand(FALSE, 0, "", "exec_command failed") }
    \cup (IF MustFail(t) THEN {}
          ELSE { RemoteCommand(TRUE, 0, "stdout", ""),
                 RemoteCommand(TRUE, 0, "stdout", "stderr"),
                 RemoteCommand(TRUE, 1, "stdout", "") })

\* A verdict that reads the exit status, as the local branch does.
RemoteVerdictByStatus(c) ==
    IF c.ran /\ c.status = 0 THEN [ok |-> TRUE, text |-> c.out]
    ELSE [ok |-> FALSE, text |-> c.err]

\* run_step on what execute_command returned: `if not err` is success with
\* the captured stdout, anything else is failure with err.
RemoteVerdict(c) ==
    IF c.err = "" THEN [ok |-> TRUE, text |-> c.out]
    ELSE [ok |-> FALSE, text |-> c.err]

\* A remote branch that tries the connection and the copy a second time.
RemoteResultsRetried(t) ==
    { RemoteResult(FALSE, "SSH connection failed.", "unclosed", 2, 0, 0, NoCommand),
      RemoteResult(FALSE, "File transfer failed.", "closed", 1, 2, 0, NoCommand) }
    \cup { RemoteResult(RemoteVerdict(c).ok, RemoteVerdict(c).text, "closed", 1, 1, 1, c) :
             c \in RemoteCommands(t) }

RemoteResults(t) ==
    { RemoteResult(FALSE, "SSH connection failed.", "unclosed", 1, 0, 0, NoCommand),
      RemoteResult(FALSE, "File transfer failed.", "closed", 1, 1, 0, NoCommand) }
    \cup { RemoteResult(RemoteVerdict(c).ok, RemoteVerdict(c).text, "closed", 1, 1, 1, c) :
             c \in RemoteCommands(t) }

----------------------------------------------------------------------------
\* An exit that reports success whatever happened.
ExitZero(code) == pc' = "exit" /\ exit_code' = 0

\* An exit that never happens: the process stays where it is.
ExitStays(code) == pc' = pc /\ exit_code' = exit_code

\* sys.exit(code), and the normal end of run (code 0).
Exit(code) == pc' = "exit" /\ exit_code' = code

\* MainPipeline.run, up to the call of process_steps: load_plan and
\* load_problem end the process with status 1 when the plan cannot be read or
\* holds no section with steps, or the problem cannot be read or is empty.
LoadInputs ==
    /\ pc = "load"
    /\ \E n \in 0..MaxSteps, problem_ok \in BOOLEAN :
         IF n = 0 \/ ~problem_ok
         THEN /\ Exit(1)
              /\ UNCHANGED plan_len
         ELSE /\ pc' = "generate"
              /\ plan_len' = n
              /\ UNCHANGED exit_code
    /\ UNCHANGED <<config_vars, docker_vars, oracle_vars, solution_vars, plan_idx, step_counter, executed_steps, step_code,
                   files, retries, execute_remotely, server_config, success,
                   output_or_error, visited, loop_hist, outcome, last_backend,
                   ssh_client, transport, remote_command, loop_ok>>

\* A counter that is never advanced.
NextCounterStuck(n) == n

\* step_counter += 1 before continue, and at the end of the loop body.
NextCounter(n) == n + 1

\* The for loops of process_steps move to the next plan entry or end.
NextPc(idx, len) == IF idx + 1 > len THEN "after_steps" ELSE "generate"

StepPath == StepFilename(step_counter)

\* A loop test that admits one attempt too many.
LoopContinuesOffByOne(r, m) == r <= m

\* A loop test that gives up one attempt early.
LoopContinuesOneShort(r, m) == r + 1 < m

\* A counter that goes on from where the previous loop left it.
StartRetriesPooled(previous) == previous

\* retries = 0 at the entry of execute_and_fix_step and execute_and_fix_main:
\* the counter is a local of the call, whatever an earlier call counted.
StartRetries(previous) == 0

\* while retries < max_retries
LoopContinues(r, m) == r < m

\* A loop body without the early return on success.
AfterRunNeverReturns(ok) == "repair"

\* The loop body after run_step: return True on success,
\* else go on to the repair.
AfterRun(ok) == IF ok THEN "return" ELSE "repair"

\* A loop body that spends the remaining budget on an unusable answer.
AfterRepairKeepsTrying(usable, r, m) ==
    IF LoopContinues(r + 1, m) THEN "again" ELSE "return"

\* The loop body after the repair oracle answered: return False when the
\* answer is unusable, else retries += 1 and the loop test.
AfterRepair(usable, r, m) ==
    IF ~usable THEN "return"
    ELSE IF LoopContinues(r + 1, m) THEN "again" ELSE "return"

\* A collection that takes every step, whatever its result.
CollectedAlways(ok, executed, path) == Append(executed, path)

\* if success: executed_steps.append(step_path)
Collected(ok, executed, path) == IF ok THEN Append(executed, path) ELSE executed

\* A body of process_steps that ends the run where it should go on.
AbortRun(why) ==
    /\ outcome' = why
    /\ Exit(1)
    /\ UNCHANGED <<step_counter, plan_idx>>

\* The body of process_steps gives the step up and goes on with the next one.
SkipStep(why) ==
    /\ outcome' = why
    /\ step_counter' = NextCounter(step_counter)
    /\ plan_idx' = plan_idx + 1
    /\ pc' = NextPc(plan_idx, plan_len)
    /\ UNCHANGED exit_code

\* process_steps: generate_step_code and the test of its result.
GenerateStep ==
    /\ pc = "generate"
    /\ visited' = Append(visited, step_counter)
    /\ \E a \in GenerateAnswers :
         IF Truthy(a)
         THEN /\ step_code' = a
              /\ pc' = "persist"
              /\ outcome' = "none"
              /\ UNCHANGED <<step_counter, plan_idx, exit_code>>
         ELSE /\ SkipStep("gen_failed")
              /\ UNCHANGED step_code
    /\ UNCHANGED <<config_vars, docker_vars, oracle_vars, solution_vars, plan_len, executed_steps, files,
                   retries, execute_remotely, server_config, success,
                   output_or_error, loop_hist, last_backend, ssh_client, transport, remote_command,
                   loop_ok>>

\* process_steps: add_main_block, save_step_code, extract_class_name, the
\* backend selection and the entry of execute_and_fix_step.
PersistStep ==
    /\ pc = "persist"
    /\ \E w \in WriteOutcomes :
         LET code == AddMainBlock(step_code) IN
         /\ files' = [files EXCEPT ![StepPath] = Written(@, code, w)]
         /\ IF w # "ok"
            THEN /\ SkipStep("save_failed")
                 /\ UNCHANGED <<retries, execute_remotely, server_config, success>>
            ELSE IF ExtractClassName(code) = "none"
            THEN /\ SkipStep("no_class")
                 /\ UNCHANGED <<retries, execute_remotely, server_config, success>>
            ELSE /\ execute_remotely' = SelectRemotely(remote_servers, step_counter)
                 /\ server_config' = SelectServer(remote_servers, step_counter)
                 /\ retries' = StartRetries(retries)
                 /\ IF LoopContinues(StartRetries(retries), max_retries)
                    THEN pc' = "run" /\ outcome' = "none"
                    ELSE pc' = "collect" /\ outcome' = "exhausted"
                 /\ success' = FALSE
                 /\ UNCHANGED <<step_counter, plan_idx, exit_code>>
    /\ step_code' = NoText
    /\ UNCHANGED <<config_vars, docker_vars, oracle_vars, solution_vars, plan_len, executed_steps,
                   output_or_error, visited, loop_hist, last_backend, ssh_client,
                   transport, remote_command, loop_ok>>

\* execute_and_fix_step: run_step and the test of its result.
RunStep ==
    /\ pc = "run"
    /\ execs' = execs + 1
    /\ LET remote == UseRemote(execute_remotely, server_config)
           results == IF remote THEN RemoteResults(files[StepPath])
                      ELSE LocalResults(files[StepPath])
       IN /\ last_backend' = IF remote THEN "remote" ELSE "local"
          /\ \E r \in results :
               /\ ssh_client' = IF remote THEN r.ssh ELSE "none"
               /\ transport' = IF remote
                                THEN Transport(server_config, r.connects, r.attempts, r.copied)
                                ELSE NoTransport
               /\ remote_command' = IF remote THEN r.command ELSE NoCommand
               /\ pc' = IF AfterRun(r.ok) = "return" THEN "collect" ELSE "repair"
               /\ IF r.ok
                  THEN /\ success' = TRUE
                       /\ outcome' = "succeeded"
                       /\ loop_ok' = loop_ok \cup {step_counter}
                       /\ UNCHANGED output_or_error
                  ELSE /\ output_or_error' = r.text
                       /\ UNCHANGED <<success, outcome, loop_ok>>
    /\ UNCHANGED <<config_vars, docker_vars, oracle_vars, solution_vars, plan_len, plan_idx, exit_code, step_counter,
                   executed_steps, step_code, files, retries, execute_remotely,
                   server_config, visited, fix_calls, writes>>

\* A repair that passes the correction through add_main_block before saving.
CorrectedCodeNormalized(a) == AddMainBlock(a)

\* update_step_code(step_path, corrected_code): the text handed to the write
\* is the answer of fix_code_with_gpt4 as it came back; neither add_main_block
\* nor extract_class_name is called on it.
CorrectedCode(a) == a

\* execute_and_fix_step after a failed run: get_step_code, fix_code_with_gpt4,
\* update_step_code, retries += 1 and the loop test.
RepairStep ==
    /\ pc = "repair"
    /\ output_or_error' = ""
    /\ \E readable \in BOOLEAN :
         LET current == IF readable THEN files[StepPath] ELSE EmptyText IN
         IF ~Truthy(current)
         THEN /\ outcome' = "no_code"
              /\ pc' = "collect"
              /\ UNCHANGED <<files, retries, fix_calls, writes>>
         ELSE \E a \in RepairAnswers :
                /\ fix_calls' = fix_calls + 1
                /\ IF Truthy(a)
                   THEN \E w \in WriteOutcomes :
                          /\ files' = [files EXCEPT ![StepPath] = Written(@, CorrectedCode(a), w)]
                          /\ writes' = writes + 1
                          /\ retries' = retries + 1
                          /\ outcome' = IF LoopContinues(retries + 1, max_retries)
                                         THEN "none" ELSE "exhausted"
                   ELSE /\ outcome' = "no_fix"
                        /\ UNCHANGED <<files, retries, writes>>
                /\ pc' = IF AfterRepair(Truthy(a), retries, max_retries) = "again"
                         THEN "run" ELSE "collect"
    /\ UNCHANGED <<config_vars, docker_vars, oracle_vars, solution_vars, plan_len, plan_idx, exit_code, step_counter,
                   executed_steps, step_code, execute_remotely, server_config,
                   success, visited, execs, last_backend, ssh_client, transport, remote_command,
                   loop_ok>>

\* process_steps after execute_and_fix_step returned: collect, count, go on;
\* the locals of the call that returned are gone.
CollectStep ==
    /\ pc = "collect"
    /\ executed_steps' = Collected(success, executed_steps, StepPath)
    /\ step_counter' = NextCounter(step_counter)
    /\ plan_idx' = plan_idx + 1
    /\ pc' = NextPc(plan_idx, plan_len)
    /\ retries' = StartRetries(retries) /\ success' = FALSE /\ outcome' = "none"
    /\ execute_remotely' = FALSE /\ server_config' = 0
    /\ execs' = 0 /\ fix_calls' = 0 /\ writes' = 0
    /\ last_backend' = "none"
    /\ ssh_client' = "none"
    /\ transport' = NoTransport
    /\ remote_command' = NoCommand
    /\ UNCHANGED <<config_vars, docker_vars, oracle_vars, solution_vars, plan_len, exit_code, step_code, files,
                   output_or_error, visited, loop_ok>>

----------------------------------------------------------------------------
\* SolutionAssembler.assemble_solution.

\* The class named in a line of main.py: Step<n> for the file's ordinal, or
\* the other name found in the file.
ClassName(cls, path) == IF cls = "Step" THEN <<"Step", DigitsValue(path)>> ELSE <<cls>>

\* What get_step_code and extract_class_name give for one listed path.
Readable(path, fs, unreadable) == IF path \in unreadable THEN EmptyText ELSE fs[path]

Usable(path, fs, unreadable) ==
    /\ Truthy(Readable(path, fs, unreadable))
    /\ ExtractClassName(Readable(path, fs, unreadable)) # "none"

\* main_imports: one "from steps.step_NNN import <Class>" per usable path.
RECURSIVE MainImports(_, _, _)
MainImports(executed, fs, unreadable) ==
    IF executed = <<>> THEN <<>>
    ELSE LET path == Head(executed)
             line == [module |-> path,
                      name |-> ClassName(ExtractClassName(fs[path]), path)]
         IN (IF Usable(path, fs, unreadable) THEN <<line>> ELSE <<>>)
                \o MainImports(Tail(executed), fs, unreadable)

\* Invocation lines that call execute before the instance is constructed.
RECURSIVE MainExecutionsSwapped(_, _, _)
MainExecutionsSwapped(executed, fs, unreadable) ==
    IF executed = <<>> THEN <<>>
    ELSE LET path == Head(executed)
             pair == << [op |-> "execute", inst |-> path],
                        [op |-> "construct", inst |-> path,
                         name |-> ClassName(ExtractClassName(fs[path]), path)] >>
         IN (IF Usable(path, fs, unreadable) THEN pair ELSE <<>>)
                \o MainExecutionsSwapped(Tail(executed), fs, unreadable)

\* main_executions: "stepNNN = <Class>()" then "stepNNN.execute()" per usable path.
RECURSIVE MainExecutions(_, _, _)
MainExecutions(executed, fs, unreadable) ==
    IF executed = <<>> THEN <<>>
    ELSE LET path == Head(executed)
             pair == << [op |-> "construct", inst |-> path,
                         name |-> ClassName(ExtractClassName(fs[path]), path)],
                        [op |-> "execute", inst |-> path] >>
         IN (IF Usable(path, fs, unreadable) THEN pair ELSE <<>>)
                \o MainExecutions(Tail(executed), fs, unreadable)

\* An assembler without the test for "no valid steps".
AssembleSolutionUnchecked(executed, fs, unreadable) ==
    [kind |-> "composite",
     imports |-> MainImports(executed, fs, unreadable),
     executions |-> MainExecutions(executed, fs, unreadable)]

\* An assembler that gives up when any listed artifact cannot be used.
AssembleSolutionStrict(executed, fs, unreadable) ==
    IF \E i \in 1..Len(executed) : ~Usable(executed[i], fs, unreadable) THEN NoText
    ELSE [kind |-> "composite",
          imports |-> MainImports(executed, fs, unreadable),
          executions |-> MainExecutions(executed, fs, unreadable)]

\* The text written to main.py, NoText when there is nothing to assemble.
AssembleSolution(executed, fs, unreadable) ==
    LET imports == MainImports(executed, fs, unreadable)
        executions == MainExecutions(executed, fs, unreadable)
    IN IF imports = <<>> /\ executions = <<>> THEN NoText
       ELSE [kind |-> "composite", imports |-> imports, executions |-> executions]

\* Non-empty text the repair oracle is taken to return for main.py: a
\* script with its own guard (it may still fail when run).
CorrectedMains == { Text(TRUE, "none", "own") }
MainRepairAnswers == {NoText, EmptyText} \cup CorrectedMains

\* The template of assemble_solution indents its first line, so the
\* interpreter rejects main.py as assembled (IndentationError).
MainMustFail(t) == t.kind = "composite" \/ MustFail(t)

MainResults(t) ==
    { [ok |-> FALSE, text |-> "stderr"],
      [ok |-> FALSE, text |-> "Execution failed."] }
    \cup (IF MainMustFail(t) THEN {}
          ELSE { [ok |-> TRUE, text |-> "stdout"], [ok |-> FALSE, text |-> ""] })

\* execute_and_fix_main: the loop test, the test of execute_main's result and
\* what follows the repair call, as written in the assembler's own copy of
\* the loop.
\* A loop test that allows one execution more.
MainLoopContinuesOffByOne(r, m) == r <= m

MainLoopContinues(r, m) == r < m

AfterMainRun(ok) == IF ok THEN "return" ELSE "repair"

AfterMainRepair(usable, r, m) ==
    IF ~usable THEN "return"
    ELSE IF MainLoopContinues(r + 1, m) THEN "again" ELSE "return"

\* A run that goes on to the deployment whatever the composite did.
AfterSolutionDeploysAnyway(ok) == pc' = "deploy" /\ UNCHANGED exit_code

\* run after assemble_and_execute_solution returned: the loop over
\* remote_servers on success, else sys.exit(1).
AfterSolution(ok) == IF ok THEN pc' = "deploy" /\ UNCHANGED exit_code ELSE Exit(1)

\* run after process_steps returned: the test of executed_steps, then
\* assemble_and_execute_solution up to the entry of execute_and_fix_main.
Assemble ==
    /\ pc = "after_steps"
    /\ IF executed_steps = <<>>
       THEN /\ Exit(1)
            /\ outcome' = "no_steps"
            /\ UNCHANGED <<main_file, unread, retries>>
       ELSE \E unreadable \in {{}} \cup {{executed_steps[i]} : i \in 1..Len(executed_steps)},
               w \in WriteOutcomes :
              LET main_code == AssembleSolution(executed_steps, files, unreadable) IN
              /\ unread' = unreadable
              /\ IF main_code = NoText
                 THEN /\ AfterSolution(FALSE)
                      /\ outcome' = "not_assembled"
                      /\ UNCHANGED <<main_file, retries>>
                 ELSE /\ main_file' = Written(main_file, main_code, w)
                      /\ IF w # "ok"
                         THEN /\ AfterSolution(FALSE) /\ outcome' = "not_written"
                              /\ UNCHANGED retries
                         ELSE /\ retries' = StartRetries(retries)
                              /\ IF MainLoopContinues(StartRetries(retries), max_retries)
                                 THEN pc' = "exec_main" /\ outcome' = "none"
                                      /\ UNCHANGED exit_code
                                 ELSE AfterSolution(FALSE) /\ outcome' = "exhausted"
    /\ UNCHANGED <<config_vars, docker_vars, oracle_vars, step_vars, plan_len, output_or_error, deploy_idx,
                   last_transfer, transfer_targets, failed_transfers, success, loop_hist,
                   last_backend, ssh_client, transport, remote_command>>

\* execute_and_fix_main: execute_main and the test of its result; on success
\* control returns to run, which starts the loop over remote_servers, and the
\* locals of the call that returned are gone.
ExecuteMain ==
    /\ pc = "exec_main"
    /\ last_backend' = "local"
    /\ \E r \in MainResults(main_file) :
         /\ IF AfterMainRun(r.ok) = "return"
            THEN AfterSolution(TRUE)
            ELSE pc' = "fix_main" /\ UNCHANGED exit_code
         /\ IF r.ok
            THEN /\ success' = TRUE
                 /\ outcome' = "succeeded"
                 /\ retries' = 0 /\ execs' = 0 /\ fix_calls' = 0 /\ writes' = 0
                 /\ UNCHANGED output_or_error
            ELSE /\ output_or_error' = r.text
                 /\ execs' = execs + 1
                 /\ UNCHANGED <<success, outcome, retries, fix_calls, writes>>
    /\ UNCHANGED <<config_vars, docker_vars, oracle_vars, step_vars, solution_vars, plan_len, ssh_client,
                   transport, remote_command>>

\* execute_and_fix_main after a failed run: get_main_code, fix_main_with_gpt4,
\* update_main_code, retries += 1 and the loop test; a False result ends run.
FixMain ==
    /\ pc = "fix_main"
    /\ output_or_error' = ""
    /\ \E readable \in BOOLEAN :
         LET current == IF readable THEN main_file ELSE EmptyText IN
         IF current.kind \notin {"text", "composite"}
         THEN /\ outcome' = "no_code"
              /\ AfterSolution(FALSE)
              /\ UNCHANGED <<main_file, retries, fix_calls, writes>>
         ELSE \E a \in MainRepairAnswers :
                /\ fix_calls' = fix_calls + 1
                /\ IF Truthy(a)
                   THEN \E w \in WriteOutcomes :
                          /\ main_file' = Written(main_file, a, w)
                          /\ writes' = writes + 1
                          /\ retries' = retries + 1
                          /\ outcome' = IF MainLoopContinues(retries + 1, max_retries)
                                         THEN "none" ELSE "exhausted"
                   ELSE /\ outcome' = "no_fix"
                        /\ UNCHANGED <<main_file, retries, writes>>
                /\ IF AfterMainRepair(Truthy(a), retries, max_retries) = "again"
                   THEN pc' = "exec_main" /\ UNCHANGED exit_code
                   ELSE AfterSolution(FALSE)
    /\ UNCHANGED <<config_vars, docker_vars, oracle_vars, step_vars, plan_len, deploy_idx, unread, last_transfer,
                   transfer_targets, failed_transfers, success, execs, last_backend, ssh_client,
                   transport, remote_command>>

\* A test that looks at the flag only.
EligibleByFlag(server) == server.execute_remotely

\* A target the finished solution is transferred to.
Eligible(server) == server.execute_remotely /\ server.steps_to_execute # {}

\* transfer_solution_to_remote: the connection, then the copies; ssh is the
\* state the client is left in.
\* The number of files os.walk finds under the solution directory: main.py
\* and whatever else the directory holds.
SolutionFiles == MaxFiles

TransferResult(ok, ssh, attempts, copied) ==
    [ok |-> ok, ssh |-> ssh, attempts |-> attempts, copied |-> copied]

\* A transfer that goes on with the next file after a failed copy.
TransferResultsResumed(nfiles) ==
    { TransferResult(TRUE, "closed", nfiles, nfiles - 1) }

\* The loop over the nfiles files returns at the first transfer_file that
\* fails.
TransferResults(nfiles) ==
    { TransferResult(FALSE, "unclosed", 0, 0) }     \* establish_connection failed
    \cup { TransferResult(FALSE, "closed", k, k - 1) : k \in 1..nfiles }
    \cup { TransferResult(TRUE, "closed", nfiles, nfiles) }

\* A loop that stays on the target it has just tried.
AfterTransferStays(idx) == idx

\* The loop over remote_servers goes on with the next target, whatever the
\* transfer returned.
AfterTransfer(idx) == idx + 1

\* A run that reports the failed transfers in its exit status.
RunStatusByTransfers(failed) == IF failed = {} THEN 0 ELSE 1

\* run after the loop over remote_servers: a transfer that returned False is
\* logged and nothing else; run returns normally and the process ends with
\* status 0.
RunStatus(failed) == 0

\* run: one iteration of the loop over remote_servers, and the normal return.
Deploy ==
    /\ pc = "deploy"
    /\ IF deploy_idx > Len(remote_servers)
       THEN /\ Exit(RunStatus(failed_transfers))
            /\ UNCHANGED <<deploy_idx, last_transfer, transfer_targets, failed_transfers, ssh_client,
                           transport>>
       ELSE /\ deploy_idx' = AfterTransfer(deploy_idx)
            /\ UNCHANGED <<pc, exit_code>>
            /\ IF Eligible(remote_servers[deploy_idx])
               THEN \E r \in TransferResults(SolutionFiles) :
                      /\ last_transfer' = [server |-> deploy_idx, ok |-> r.ok]
                      /\ transfer_targets' = Append(transfer_targets, deploy_idx)
                      /\ failed_transfers' = IF r.ok THEN failed_transfers
                                              ELSE failed_transfers \cup {deploy_idx}
                      /\ ssh_client' = r.ssh
                      /\ transport' = Transport(deploy_idx, 1, r.attempts, r.copied)
               ELSE UNCHANGED <<last_transfer, transfer_targets, failed_transfers, ssh_client, transport>>
    /\ UNCHANGED <<config_vars, docker_vars, oracle_vars, step_vars, plan_len, main_file, unread, retries,
                   success, output_or_error, loop_hist, outcome, last_backend,
                   remote_command>>

Next ==
    \/ LoadInputs
    \/ GenerateStep
    \/ PersistStep
    \/ RunStep
    \/ RepairStep
    \/ CollectStep
    \/ Assemble
    \/ ExecuteMain
    \/ FixMain
    \/ Deploy

Spec == Init /\ [][Next]_vars

\* The run as the interpreter carries it out: one thread, every call made is
\* waited for, and every backend run, oracle call and file operation returns,
\* so a step that can be taken is taken.  Followed for the configuration with
\* the one remote target.
LiveInit == Init /\ Len(remote_servers) = 1

LiveSpec == LiveInit /\ [][Next]_vars /\ WF_vars(Next)

----------------------------------------------------------------------------
\* MainPipeline.run_docker_container: DockerManager() and run_container,
\* against the Docker daemon.  The daemon knows
\* at most one container of the manager's container_name: "absent",
\* "running", or "stopped" (created but not started, or exited).

pipeline_vars == <<max_retries, remote_servers, plan_len, plan_idx, pc, exit_code,
                   step_counter, executed_steps, step_code, files, retries,
                   execute_remotely, server_config, success, output_or_error,
                   main_file, deploy_idx, visited, execs, fix_calls, writes, outcome,
                   last_backend, ssh_client, loop_ok, unread, last_transfer,
                   transport, remote_command, transfer_targets, failed_transfers>>

\* A DockerManager exists; a container of its name may be left from before.
DockerInit ==
    /\ max_retries = 0
    /\ remote_servers = <<>>
    /\ PipelineInit
    /\ image \in {"absent", "present"}
    /\ container \in {"absent", "running", "stopped"}
    /\ docker_pc = "idle"
    /\ docker_runs = 0
    /\ docker_result = NoDockerResult
    /\ found = FALSE
    /\ removed = FALSE
    /\ NoOracle

\* run_container returns (False, str(e)) from its except branches.
DockerFails(why) ==
    /\ docker_result' = DockerResult(FALSE, why)
    /\ docker_pc' = "idle"

\* A run_container that starts the new container without removing the old.
AfterGetSkipsRemoval(exists) == "start"

\* After containers.get: remove the container it returned, or go on when it
\* raised NotFound.
AfterGet(exists) == IF exists THEN "remove" ELSE "start"

\* run_docker_container begins: a DockerManager is made.
DockerCall ==
    /\ docker_pc = "idle"
    /\ docker_runs < MaxRuns
    /\ docker_runs' = docker_runs + 1
    /\ docker_pc' = "ensure"
    /\ docker_result' = NoDockerResult
    /\ found' = FALSE
    /\ removed' = FALSE
    /\ UNCHANGED <<pipeline_vars, oracle_vars, image, container>>

\* DockerManager.__init__: _ensure_image builds the image when images.get
\* raises ImageNotFound; an exception of the build leaves the constructor,
\* so run_container is not called.
EnsureImage ==
    /\ docker_pc = "ensure"
    /\ IF image = "present"
       THEN /\ docker_pc' = "get"
            /\ UNCHANGED <<image, docker_result>>
       ELSE \/ /\ image' = "present"
               /\ docker_pc' = "get"
               /\ UNCHANGED docker_result
            \/ /\ DockerFails("build_failed")
               /\ UNCHANGED image
    /\ UNCHANGED <<pipeline_vars, oracle_vars, container, docker_runs, found, removed>>

\* existing_container = containers.get(container_name)
DockerGet ==
    /\ docker_pc = "get"
    /\ \/ /\ found' = (container # "absent")
          /\ docker_pc' = AfterGet(container # "absent")
          /\ UNCHANGED docker_result
       \/ /\ DockerFails("api_error")         \* the daemon did not answer
          /\ UNCHANGED found
    /\ UNCHANGED <<pipeline_vars, oracle_vars, image, container, docker_runs, removed>>

\* existing_container.remove(force=True)
DockerRemove ==
    /\ docker_pc = "remove"
    /\ \/ /\ container' = "absent"
          /\ removed' = TRUE
          /\ docker_pc' = "start"
          /\ UNCHANGED docker_result
       \/ /\ DockerFails("api_error")
          /\ UNCHANGED <<container, removed>>
    /\ UNCHANGED <<pipeline_vars, oracle_vars, image, docker_runs, found>>

\* containers.run(image, name=container_name, detach=True): the daemon
\* refuses a name that is taken; else it creates the container and starts it.
DockerStart ==
    /\ docker_pc = "start"
    /\ IF container # "absent"
       THEN /\ DockerFails("name_taken")
            /\ UNCHANGED container
       ELSE \/ /\ container' = "running"
               /\ docker_pc' = "wait"
               /\ UNCHANGED docker_result
            \/ /\ DockerFails("api_error")    \* not created, or created and not started
               /\ container' \in {"absent", "stopped"}
    /\ UNCHANGED <<pipeline_vars, oracle_vars, image, docker_runs, found, removed>>

\* container.wait(), container.logs() and the test of StatusCode.
DockerWait ==
    /\ docker_pc = "wait"
    /\ \/ /\ container' = "stopped"
          /\ \E status \in {0, 1} :
               docker_result' = DockerResult(status = 0, "logs")
          /\ docker_pc' = "idle"
       \/ /\ DockerFails("api_error")
          /\ container' \in {"running", "stopped"}
    /\ UNCHANGED <<pipeline_vars, oracle_vars, image, docker_runs, found, removed>>

\* cleanup_container between two calls of run_container.
CleanupContainer ==
    /\ docker_pc = "idle"
    /\ container # "absent"
    /\ container' = "absent"
    /\ UNCHANGED <<pipeline_vars, oracle_vars, image, docker_pc, docker_runs, docker_result, found,
                   removed>>

DockerNext ==
    \/ DockerCall
    \/ EnsureImage
    \/ DockerGet
    \/ DockerRemove
    \/ DockerStart
    \/ DockerWait
    \/ CleanupContainer

DockerSpec == DockerInit /\ [][DockerNext]_vars

----------------------------------------------------------------------------
\* One oracle call: generate_step_code, fix_code_with_gpt4 or
\* fix_main_with_gpt4.  Each is a loop around one try statement; what the try
\* body does is the environment's choice:
\*   "content"    - the API expression returns a response; its stripped
\*                  content is returned
\*   "rate_limit" - the library's RateLimitError is raised
\*   "api_error"  - another OpenAIError is raised
\*   "fault"      - any other exception is raised (also by the API expression
\*                  itself, before a request is sent)
\* When an exception is raised the except clauses are evaluated in order, and
\* the first one names the exception class through the openai module:
\* generate_step_code as openai.RateLimitError, the two repair functions as
\* openai.error.RateLimitError.  A package before 1.0 has only the second
\* name, a package from 1.0 on only the first; where the name is missing the
\* lookup raises AttributeError and that exception leaves the function.

ApiMaxRetries == 3

OracleFunctions == {"generate_step_code", "fix_code_with_gpt4", "fix_main_with_gpt4"}

Libraries == {"v0", "v1"}

ApiSignals == {"content", "rate_limit", "api_error", "fault"}

Pending == [kind |-> "pending"]
Raised == [kind |-> "raised"]

\* The module the except clauses of the function look the classes up in.
HandlerNames(fn) == IF fn = "generate_step_code" THEN "openai" ELSE "openai.error"

\* The installed package has the names the function's except clauses use.
NamesResolve(lib, fn) ==
    \/ lib = "v1" /\ HandlerNames(fn) = "openai"
    \/ lib = "v0" /\ HandlerNames(fn) = "openai.error"

\* response.choices[0].message.content.strip(): "" or a non-empty text.
Contents(fn) ==
    {EmptyText} \cup
    (CASE fn = "generate_step_code" -> GeneratedTexts
       [] fn = "fix_code_with_gpt4" -> CorrectedTexts
       [] OTHER -> CorrectedMains)

\* while retries < max_retries, with the function's own max_retries = 3.
ApiLoopContinues(r) == r < ApiMaxRetries

OracleInit ==
    /\ max_retries = 0
    /\ remote_servers = <<>>
    /\ PipelineInit
    /\ NoDocker
    /\ library \in Libraries
    /\ oracle_fn = "none"
    /\ api_pc = "idle"
    /\ api_retries = 0
    /\ api_attempts = 0
    /\ api_signal = "none"
    /\ api_result = Pending

\* The call begins: max_retries = 3; retries = 0; the loop test.
OracleCall ==
    /\ api_pc = "idle"
    /\ \E fn \in OracleFunctions : oracle_fn' = fn
    /\ api_retries' = 0
    /\ api_pc' = IF ApiLoopContinues(0) THEN "try" ELSE "done"
    /\ api_result' = Pending
    /\ UNCHANGED <<pipeline_vars, docker_vars, library, api_attempts, api_signal>>

\* One turn of the loop: the try body and the except clauses.
ApiAttempt ==
    /\ api_pc = "try"
    /\ api_attempts' = api_attempts + 1
    /\ \E sig \in ApiSignals :
         /\ api_signal' = sig
         /\ IF sig = "content"
            THEN /\ \E t \in Contents(oracle_fn) : api_result' = t
                 /\ api_pc' = "done"
                 /\ UNCHANGED api_retries
            ELSE IF ~NamesResolve(library, oracle_fn)
            THEN /\ api_result' = Raised
                 /\ api_pc' = "done"
                 /\ UNCHANGED api_retries
            ELSE IF sig = "rate_limit"
            THEN /\ api_retries' = api_retries + 1
                 /\ IF ApiLoopContinues(api_retries + 1)
                    THEN api_pc' = "try" /\ UNCHANGED api_result
                    ELSE api_pc' = "done" /\ api_result' = NoText
            ELSE /\ api_result' = NoText
                 /\ api_pc' = "done"
                 /\ UNCHANGED api_retries
    /\ UNCHANGED <<pipeline_vars, docker_vars, library, oracle_fn>>

\* The call is over: the caller has its result (or the exception), the
\* locals of the call are gone.
OracleReturn ==
    /\ api_pc = "done"
    /\ api_pc' = "idle"
    /\ api_retries' = 0
    /\ api_attempts' = 0
    /\ api_signal' = "none"
    /\ UNCHANGED <<pipeline_vars, docker_vars, library, oracle_fn, api_result>>

OracleNext ==
    \/ OracleCall
    \/ ApiAttempt
    \/ OracleReturn

OracleSpec == OracleInit /\ [][OracleNext]_vars

----------------------------------------------------------------------------
\* Properties.

Ordinals(k) == [i \in 1..k |-> i]

\* The paths of the ordinals of S up to k, in increasing order.
RECURSIVE PathsUpTo(_, _)
PathsUpTo(k, S) ==
    IF k = 0 THEN <<>>
    ELSE PathsUpTo(k - 1, S) \o (IF k \in S THEN <<StepFilename(k)>> ELSE <<>>)

InStepLoop == pc \in {"run", "repair", "collect"}
StepsReturned == pc \in {"after_steps", "exec_main", "fix_main", "deploy"}
                    \/ (pc = "exit" /\ plan_len > 0)

\* C1: process_steps visits the ordinals 1..N in increasing order, once
\* each: the ordinal counter always equals the position in the plan, the
\* ordinals begun so far are 1..k without gap or repeat, every action of the
\* per-step work (persist, run, repair, collect) is on the ordinal begun
\* last, and when process_steps has returned all of 1..N were visited.
C1_StepsInOrder ==
    /\ step_counter = plan_idx
    /\ visited = Ordinals(Len(visited))
    /\ pc = "generate" => Len(visited) = step_counter - 1 /\ step_counter <= plan_len
    /\ (pc = "persist" \/ InStepLoop) =>
            Len(visited) = step_counter /\ step_counter <= plan_len
    /\ StepsReturned => visited = Ordinals(plan_len) /\ step_counter = plan_len + 1

C1_Witness ==
    /\ pc = "exit" /\ exit_code = 0
    /\ visited = <<1, 2, 3>>
    /\ loop_ok = {1, 3}

\* C2 as stated: a step whose every execution failed and whose every repair
\* call returned a non-empty correction (so it ended neither by success nor
\* by a missing correction) was executed exactly max_retries times.
C2_Original ==
    (pc = "collect" /\ max_retries >= 1 /\ outcome \in {"exhausted", "no_code"})
        => execs = max_retries

\* C2 amended: no step is executed more than max_retries times; a step that
\* ends by exhaustion (every execution failed, every read-back gave text,
\* every repair call returned a non-empty correction) was executed exactly
\* max_retries times and is not a success; a step given up because its
\* artifact could not be read back was executed at least once.
C2_ExhaustedAfterMaxRetries ==
    /\ (pc = "persist" \/ InStepLoop) => execs <= max_retries
    /\ (pc = "collect" /\ outcome = "exhausted") =>
            execs = max_retries /\ retries = max_retries /\ ~success
    /\ (pc = "collect" /\ outcome = "no_code") =>
            execs >= 1 /\ execs = retries + 1 /\ ~success

C2_Witness ==
    /\ pc = "collect" /\ outcome = "exhausted"
    /\ max_retries = 2 /\ execs = 2 /\ fix_calls = 2

\* C3: a successful execution ends the step's loop at once: the step that
\* takes the result returns with execs = retries + 1 <= max_retries and no
\* repair call or write, the only step taken from there collects the path
\* and moves to the next plan entry without touching a file, and the
\* artifact of a collected step is never written again.
C3_StopsOnSuccess ==
    [][ /\ (pc = "run" /\ success') =>
              /\ pc' = "collect"
              /\ execs' = retries + 1 /\ execs' <= max_retries
              /\ fix_calls' = fix_calls /\ writes' = writes /\ files' = files
        /\ (pc = "collect" /\ success) =>
              /\ pc' \in {"generate", "after_steps"}
              /\ executed_steps' = Append(executed_steps, StepPath)
              /\ files' = files
        /\ \A i \in 1..Len(executed_steps) :
              files'[executed_steps[i]] = files[executed_steps[i]]
      ]_vars

C3_Witness ==
    /\ pc = "collect" /\ success
    /\ max_retries = 2 /\ execs = 2 /\ fix_calls = 1 /\ writes = 1

\* C4: when the repair oracle gives None or empty text after a failed
\* execution, the loop of the step or of the composite has returned False:
\* nothing runs after the failed execution (execs = retries + 1), the oracle
\* call with the unusable answer was the last one (fix_calls = execs) and
\* the attempt was not counted, whatever budget remained.
C4_AbandonedWithoutCorrection ==
    outcome = "no_fix" =>
        /\ pc \in {"collect", "exit"}
        /\ ~success
        /\ execs = retries + 1 /\ fix_calls = execs /\ writes = retries
        /\ pc = "exit" => exit_code = 1

C4_Witness ==
    /\ pc = "collect" /\ outcome = "no_fix"
    /\ max_retries = 2 /\ execs = 1 /\ retries = 0

\* C5: when process_steps has returned, every ordinal of the plan was
\* visited and executed_steps holds exactly the paths of the steps whose
\* loop returned True, in increasing ordinal order; before that it holds the
\* paths of those already collected.
C5_CollectsSucceededSteps ==
    /\ StepsReturned =>
            /\ visited = Ordinals(plan_len)
            /\ executed_steps = PathsUpTo(plan_len, loop_ok)
    /\ pc \in {"generate", "persist", "run", "repair"} =>
            executed_steps = PathsUpTo(step_counter - 1, loop_ok)

C5_Witness ==
    /\ pc = "after_steps" /\ plan_len = 3
    /\ visited = <<1, 2, 3>>
    /\ loop_ok = {1, 3}
    /\ executed_steps = <<StepFilename(1), StepFilename(3)>>

\* The paths of a composite's reference lines, in order.
ImportModules(c) == [i \in 1..Len(c.imports) |-> c.imports[i].module]

\* The listed paths the assembler could read and found a class in.
UsablePath(path) == path \notin unread /\ ExtractClassName(files[path]) # "none"
UsablePaths == SelectSeq(executed_steps, UsablePath)

\* C6: with no Succeeded step the run ends with exit status 1 and main.py
\* is never written, and assemble_solution over the empty list gives
\* nothing, whatever the steps directory holds.
C6_NoStepsNoComposite ==
    /\ (StepsReturned /\ executed_steps = <<>>) =>
            /\ main_file = NoFile
            /\ pc \in {"after_steps", "exit"}
            /\ pc = "exit" => exit_code = 1
    /\ AssembleSolution(<<>>, files, {}) = NoText

C6_Witness ==
    /\ pc = "exit" /\ exit_code = 1 /\ outcome = "no_steps"
    /\ visited = <<1, 2, 3>> /\ executed_steps = <<>>
    /\ main_file = NoFile

C8_RemoteForListedSteps ==
    /\ (remote_servers = <<Server(TRUE, {2, 3})>> /\ InStepLoop /\ execs > 0) =>
            last_backend = IF step_counter \in {2, 3} THEN "remote" ELSE "local"
    /\ InStepLoop =>
            /\ execute_remotely = SelectRemotely(remote_servers, step_counter)
            /\ server_config = SelectServer(remote_servers, step_counter)
            /\ execs > 0 =>
                  last_backend = IF UseRemote(execute_remotely, server_config)
                                 THEN "remote" ELSE "local"

C8_Witness ==
    /\ remote_servers = <<Server(TRUE, {2, 3})>>
    /\ pc = "collect" /\ success
    /\ step_counter = 3 /\ last_backend = "remote" /\ execs = 2
    /\ loop_ok = {1, 3}

\* C9 as stated: whenever a remote run or a solution transfer has returned,
\* the SSH client made for it has been closed.
C9_ChannelClosed == ssh_client # "unclosed"

\* C10 as stated: once an artifact could not be saved, or not be read back
\* for a repair, no later step is begun and no assembly is attempted.
C10_Original ==
    [][ (outcome = "save_failed" \/ outcome = "no_code") =>
            /\ visited' = visited
            /\ ~(pc = "after_steps" /\ executed_steps # <<>> /\ pc' # pc)
      ]_vars

\* C10 amended: a failure to save a step's artifact, or to read it back for
\* a repair, gives up that step only: the run is not ended, the step is not
\* collected and no repair call is made for it, the plan goes on with the
\* next entry (every entry is begun when its turn comes), and after the last
\* entry assembly is attempted when some step succeeded.
C10_StepOnlyGivenUp ==
    [][ /\ (pc = "persist" /\ outcome' = "save_failed") =>
              /\ pc' = (IF plan_idx < plan_len THEN "generate" ELSE "after_steps")
              /\ step_counter' = step_counter + 1
              /\ exit_code' = -1
              /\ executed_steps' = executed_steps /\ files' = files
        /\ (pc = "repair" /\ outcome' = "no_code") =>
              /\ pc' = "collect" /\ ~success' /\ exit_code' = -1
              /\ fix_calls' = fix_calls /\ files' = files
        /\ (pc = "collect" /\ outcome = "no_code") =>
              /\ pc' = (IF plan_idx < plan_len THEN "generate" ELSE "after_steps")
              /\ step_counter' = step_counter + 1
              /\ exit_code' = -1
              /\ executed_steps' = executed_steps
        /\ pc = "generate" => visited' = Append(visited, step_counter)
        /\ (pc = "after_steps" /\ executed_steps # <<>>) =>
              outcome' \in {"none", "exhausted", "not_assembled", "not_written"}
      ]_vars

C10_Witness ==
    /\ pc = "generate" /\ outcome = "save_failed"
    /\ step_counter = 2 /\ plan_len = 3
    /\ exit_code = -1

\* The last execution was a remote run that failed to connect or to copy.
TransportFailed ==
    /\ last_backend = "remote"
    /\ transport.connects >= 1 /\ transport.copied = 0

C12_FirstFailedCopyAborts ==
    transfer_targets # <<>> =>
        /\ transport.server = last_transfer.server
        /\ transport.connects = 1
        /\ transport.attempts <= SolutionFiles
        /\ last_transfer.ok <=>
              (transport.copied = SolutionFiles /\ transport.attempts = SolutionFiles)
        /\ ~last_transfer.ok =>
              /\ transport.copied < SolutionFiles
              /\ transport.attempts > 0 => transport.copied = transport.attempts - 1
              /\ transport.attempts = 0 => ssh_client = "unclosed"

C12_Witness ==
    /\ pc = "exit" /\ exit_code = 0
    /\ ~last_transfer.ok
    /\ transport.attempts = 2 /\ transport.copied = 1 /\ SolutionFiles = 3

\* How a finished run ended.
LoadFailed == pc = "exit" /\ plan_len = 0
CompositeFailed == pc = "exit" /\ outcome \in {"exhausted", "no_fix", "no_code"}

\* C13: the process ends with status 1 when the plan or the problem could
\* not be loaded, when no step succeeded, when the composite could not be
\* assembled or written, and when the composite's loop ended without
\* success; it ends with status 0 only after the composite ran successfully.
C13_NonZeroExitOnFailure ==
    pc = "exit" =>
        /\ exit_code \in {0, 1}
        /\ LoadFailed => exit_code = 1 /\ visited = <<>>
        /\ executed_steps = <<>> => exit_code = 1
        /\ outcome \in {"no_steps", "not_assembled", "not_written"} => exit_code = 1
        /\ CompositeFailed => exit_code = 1 /\ ~success
        /\ exit_code = 0 =>
              /\ success /\ outcome = "succeeded"
              /\ executed_steps # <<>> /\ main_file.kind = "text"

C13_Witness ==
    /\ pc = "exit" /\ exit_code = 1
    /\ outcome = "exhausted" /\ execs = 2 /\ fix_calls = 2
    /\ executed_steps # <<>> /\ main_file.kind = "text"

\* The step that was given up last, and its artifact.
GivenUp == step_counter - 1

\* C14: a step whose generation gave None or empty text, or text in which no
\* top-level class is found, is given up with nothing spent on it: no
\* execution, no repair call, attempt count untouched, not counted as
\* Succeeded and not listed for the assembler; the only artifact a loop ever
\* starts on is a parsable text with a top-level class.
C14_GenerationFailureSpendsNothing ==
    /\ outcome \in {"gen_failed", "no_class"} =>
          /\ pc \in {"generate", "after_steps"}
          /\ execs = 0 /\ fix_calls = 0 /\ writes = 0 /\ retries = 0
          /\ last_backend = "none"
          /\ GivenUp \notin loop_ok
          /\ \A i \in 1..Len(executed_steps) : executed_steps[i] # StepFilename(GivenUp)
          /\ outcome = "gen_failed" => files[StepFilename(GivenUp)] = NoFile
          /\ outcome = "no_class" =>
                \/ ~files[StepFilename(GivenUp)].syn
                \/ files[StepFilename(GivenUp)].cls = "none"
    /\ (pc = "run" /\ execs = 0) =>
          /\ files[StepPath].kind = "text"
          /\ files[StepPath].syn /\ files[StepPath].cls # "none"

C14_Witness ==
    /\ pc = "generate" /\ outcome = "no_class"
    /\ step_counter = 3 /\ loop_ok = {1}
    /\ files[StepFilename(2)] = Text(TRUE, "none", "std")

\* C15: whenever run_container comes to start the new container, no
\* container of its name exists: one that existed when the call began was
\* found and removed by this call first, and when none existed the call went
\* to the start with no removal; so the start is never refused because the
\* name is taken.
C15_StaleContainerRemovedFirst ==
    /\ docker_pc = "start" => container = "absent"
    /\ docker_pc \in {"start", "wait"} => removed = found
    /\ docker_pc = "remove" => found /\ ~removed /\ container # "absent"
    /\ docker_result.why # "name_taken"

C15_Witness ==
    /\ docker_pc = "wait" /\ container = "running"
    /\ docker_runs = 2 /\ found /\ removed

\* The targets that list the ordinal n.
Listing(n) == {i \in 1..Len(remote_servers) : n \in remote_servers[i].steps_to_execute}

\* C16: the descriptor a step's loop is given is that of the first target,
\* in configuration order, that lists the step's ordinal (none when no target
\* lists it), it stays the same for every attempt of the step, and a remote
\* run of the step uses that target and no other.
C16_FirstListingTargetWins ==
    InStepLoop =>
        /\ Listing(step_counter) = {} => server_config = 0
        /\ Listing(step_counter) # {} =>
              /\ server_config \in Listing(step_counter)
              /\ \A j \in Listing(step_counter) : server_config <= j
        /\ transport.server \in {0, server_config}
        /\ last_backend = "remote" => transport.server = server_config

C16_Witness ==
    /\ Len(remote_servers) = 4
    /\ pc = "collect" /\ success /\ step_counter = 3
    /\ Listing(3) = {3, 4}
    /\ last_backend = "remote" /\ transport.server = 3 /\ execs = 2

\* The targets configured with an empty steps_to_execute.
EmptyTargets == {i \in 1..Len(remote_servers) : remote_servers[i].steps_to_execute = {}}

\* C17: a target whose steps_to_execute is empty is never selected for a
\* step, never connected to for a run and never sent the solution, whatever
\* its execute_remotely flag says.
C17_EmptyTargetGetsNoWork ==
    \A i \in EmptyTargets :
        /\ server_config # i
        /\ transport.server # i
        /\ last_transfer.server # i
        /\ \A k \in 1..Len(transfer_targets) : transfer_targets[k] # i

C17_Witness ==
    /\ EmptyTargets = {1} /\ remote_servers[1].execute_remotely
    /\ pc = "exit" /\ exit_code = 0
    /\ transfer_targets = <<3, 4>>

\* The targets with execute_remotely true and a non-empty step list among
\* the first k, in configuration order.
IsEligible(i) ==
    remote_servers[i].execute_remotely /\ remote_servers[i].steps_to_execute # {}

EligibleUpTo(k) == SelectSeq(Ordinals(k), IsEligible)

\* C18: the loop over the targets is entered only after the composite's
\* loop returned success; the transfers attempted so far are exactly the
\* eligible targets the loop has passed, once each in configuration order;
\* a run that ends with status 0 has been through all of them, and a run
\* whose composite failed has attempted none.
C18_DeployOnlyAfterSuccess ==
    /\ transfer_targets = EligibleUpTo(deploy_idx - 1)
    /\ (pc = "deploy" \/ deploy_idx > 1) => (success /\ outcome = "succeeded")
    /\ (pc = "exit" /\ exit_code = 0) => deploy_idx = Len(remote_servers) + 1
    /\ (pc = "exit" /\ exit_code = 1) => (deploy_idx = 1 /\ last_transfer.server = 0)
    /\ pc \notin {"deploy", "exit"} => deploy_idx = 1

C18_Witness ==
    /\ pc = "exit" /\ exit_code = 0
    /\ Len(remote_servers) = 4 /\ deploy_idx = 5
    /\ transfer_targets = <<3, 4>> /\ last_transfer = [server |-> 4, ok |-> TRUE]

\* C19: every step of the deployment loop leaves main.py, the step
\* artifacts and the list of Succeeded steps as they were, makes at most one
\* transfer attempt and moves on to the next target whatever the transfer
\* returned; no target is attempted twice in a run.
C19_FailedTransferNotRetriedNoRollback ==
    [][ /\ pc = "deploy" =>
              /\ main_file' = main_file /\ files' = files
              /\ executed_steps' = executed_steps
              /\ success' = success
              /\ deploy_idx <= Len(remote_servers) =>
                    /\ deploy_idx' = deploy_idx + 1
                    /\ pc' = "deploy"
              /\ Len(transfer_targets') <= Len(transfer_targets) + 1
        /\ \A i, j \in 1..Len(transfer_targets') :
              i # j => transfer_targets'[i] # transfer_targets'[j]
      ]_vars

C19_Witness ==
    /\ pc = "exit" /\ exit_code = 0
    /\ Len(remote_servers) = 1
    /\ transfer_targets = <<1>> /\ ~last_transfer.ok
    /\ main_file.kind = "text"

\* The least index of a non-empty set of targets.
FirstOf(S) == CHOOSE i \in S : \A j \in S : i <= j

\* C20 as stated: a step is executed remotely whenever some target lists its
\* ordinal, and locally only when none does.
C20_Original ==
    (InStepLoop /\ execs > 0) =>
        last_backend = IF Listing(step_counter) # {} THEN "remote" ELSE "local"

\* C20 amended: a step is executed on the Remote backend exactly when some
\* target lists its ordinal and the first target listing it has
\* execute_remotely true, and then on that target; it is executed on the
\* Local backend when no target lists it and also when the first target
\* listing it has execute_remotely false.
C20_RemoteWhenFirstListingTargetIsRemote ==
    (InStepLoop /\ execs > 0) =>
        LET listed == Listing(step_counter) # {}
            flag == listed /\ remote_servers[FirstOf(Listing(step_counter))].execute_remotely
        IN /\ last_backend = IF flag THEN "remote" ELSE "local"
           /\ flag => transport.server = FirstOf(Listing(step_counter))
           /\ ~flag => transport = NoTransport /\ ssh_client = "none"

C20_Witness ==
    /\ pc = "collect" /\ success /\ step_counter = 2
    /\ Listing(2) = {2, 3} /\ ~remote_servers[2].execute_remotely
    /\ last_backend = "local" /\ server_config = 2

\* C21 as stated: a step's loop is only ever entered with a text whose
\* top-level class is named Step<ordinal>; a text with a class of another name
\* is never executed.
C21_Original ==
    (pc = "run" /\ execs = 0) => files[StepPath].cls = "Step"

\* C21: a generated text that was saved is accepted for execution exactly when
\* it parses and has a top-level class, whatever the name of that class; what
\* is accepted is the saved text, with the guard add_main_block gave it; only
\* a text that is unparsable or has no class at all is given up unexecuted.
C21_AnyFirstClassAccepted ==
    [][ (pc = "persist" /\ files'[StepPath] # NoFile) =>
           /\ (pc' \in {"run", "collect"}) <=> (step_code.syn /\ step_code.cls # "none")
           /\ (pc' \notin {"run", "collect"}) => outcome' = "no_class"
           /\ files'[StepPath] = AddMainBlock(step_code)
           /\ execs' = 0 ]_vars

C21_Witness ==
    /\ pc = "collect" /\ success /\ execs = 1 /\ fix_calls = 0
    /\ files[StepPath] = Text(TRUE, "Other", "own")

LoopPhase ==
    CASE pc \in {"run", "exec_main"} -> "execute"
      [] pc \in {"repair", "fix_main"} -> "repair"
      [] OTHER -> "returned"

LoopPhaseNext ==
    CASE pc' \in {"run", "exec_main"} -> "execute"
      [] pc' \in {"repair", "fix_main"} -> "repair"
      [] OTHER -> "returned"

LoopTurn ==
    /\ LoopPhase = "execute" =>
          \/ LoopPhaseNext = "returned" /\ success' /\ outcome' = "succeeded"
          \/ /\ LoopPhaseNext = "repair" /\ ~success'
             /\ execs' = execs + 1
             /\ retries' = retries /\ fix_calls' = fix_calls /\ writes' = writes
    /\ LoopPhase = "repair" =>
          \/ /\ LoopPhaseNext = "returned" /\ outcome' \in {"no_code", "no_fix"}
             /\ fix_calls' = fix_calls + (IF outcome' = "no_fix" THEN 1 ELSE 0)
             /\ retries' = retries /\ writes' = writes /\ execs' = execs
          \/ /\ fix_calls' = fix_calls + 1 /\ writes' = writes + 1
             /\ retries' = retries + 1 /\ execs' = execs
             /\ IF retries + 1 < max_retries
                THEN LoopPhaseNext = "execute" /\ outcome' = "none"
                ELSE LoopPhaseNext = "returned" /\ outcome' = "exhausted"
    /\ LoopPhase # "returned" => ~success /\ retries < max_retries

\* C23: the composite's loop and a step's loop on the local backend are the
\* same state machine: the loop test and the two decisions of the body are
\* the same functions in both, every turn of either loop is a turn of the one
\* relation LoopTurn, and the composite is executed locally only, with no
\* connection opened.
C23_SameLoopForComposite ==
    [][ /\ \A r \in 0..(MaxRetries + 1), m \in 0..MaxRetries, usable \in BOOLEAN :
              /\ MainLoopContinues(r, m) = LoopContinues(r, m)
              /\ AfterMainRun(usable) = AfterRun(usable)
              /\ AfterMainRepair(usable, r, m) = AfterRepair(usable, r, m)
        /\ (pc \in {"exec_main", "fix_main"}) =>
              /\ LoopTurn
              /\ last_backend' = "local"
              /\ ssh_client' = ssh_client /\ transport' = transport
        /\ (pc \in {"run", "repair"} /\ ~UseRemote(execute_remotely, server_config)) =>
              /\ LoopTurn
              /\ last_backend' = "local"
              /\ ssh_client' = "none" /\ transport' = NoTransport ]_vars

C23_Witness ==
    /\ pc = "exit" /\ exit_code = 1 /\ outcome = "exhausted"
    /\ last_backend = "local"
    /\ max_retries = 2 /\ execs = 2 /\ fix_calls = 2 /\ writes = 2 /\ retries = 2
    /\ main_file.kind = "text"

\* C24: the retry budget belongs to one loop: a step's loop and the
\* composite's loop are entered with the attempt counter at zero, nothing is
\* carried between loops, and within a loop neither the counter nor the
\* number of executions passes max_retries, so each entity has the whole
\* budget whatever earlier steps used up.
C24_BudgetPerEntity ==
    /\ (pc \in {"run", "exec_main"} /\ execs = 0) => retries = 0 /\ fix_calls = 0
    /\ pc \in {"generate", "persist", "after_steps"} =>
          retries = 0 /\ execs = 0 /\ fix_calls = 0 /\ writes = 0
    /\ pc \in {"run", "repair", "collect", "exec_main", "fix_main"} =>
          /\ retries <= max_retries /\ execs <= max_retries
          /\ retries = writes
    /\ pc \in {"run", "exec_main"} => retries < max_retries /\ execs = retries
    /\ pc \in {"repair", "fix_main"} => retries < max_retries /\ execs = retries + 1

C24_Witness ==
    /\ pc = "collect" /\ step_counter = 2
    /\ max_retries = 2 /\ execs = 2 /\ retries = 2 /\ outcome = "exhausted"
    /\ 1 \in loop_ok /\ files[StepFilename(1)] = Text(TRUE, "none", "none")

\* C25 as stated: one oracle call enters its try body at most 3 times and
\* again only after a rate-limit signal; a call whose last attempt met any
\* other error returned no result at once; a call that was rate-limited 3
\* times returned no result; the step's attempt counter is not touched.
C25_BoundedThrottlingRetries ==
    /\ api_attempts <= ApiMaxRetries
    /\ retries = 0
    /\ api_pc = "done" =>
          /\ api_signal \in {"api_error", "fault"} => api_result = NoText
          /\ api_signal = "rate_limit" =>
                api_result = NoText /\ api_attempts = ApiMaxRetries
          /\ api_signal = "content" => api_result \in Contents(oracle_fn)

\* The texts add_main_block is examined on: every combination of what it and
\* the interpreter can tell apart.
AllTexts ==
    { Text(syn, cls, main) :
        syn \in BOOLEAN, cls \in {"Step", "Other", "none"},
        main \in {"none", "std", "own", "unseen", "unseen+std"} }

\* C26 as stated: normalising a generated text twice gives what normalising
\* it once gives, a text that has a guard is unchanged and a text that has
\* none comes out with the guard appended.
C26_Original ==
    [][ pc = "persist" =>
           LET u == AddMainBlock(step_code) IN
           /\ AddMainBlock(u) = u
           /\ step_code.main # "none" => u = step_code
           /\ step_code.main = "none" => u.main = "std" ]_vars

\* C26: add_main_block is a function of the text and idempotent on every
\* text; a text that does not parse, or in which it recognises a guard, is
\* returned unchanged; every other text gets the standard guard appended once
\* (also when it carries a guard the test does not recognise), keeps its
\* class, and is recognised as guarded afterwards.  The text a step's loop is
\* entered with is a fixed point of add_main_block.
C26_NormalizeIdempotent ==
    /\ \A t \in AllTexts \cup {NoText, EmptyText} :
          LET u == AddMainBlock(t) IN
          /\ AddMainBlock(u) = u
          /\ (t.kind # "text" \/ ~t.syn \/ HasMain(t)) => u = t
          /\ (t.kind = "text" /\ t.syn /\ ~HasMain(t)) =>
                /\ u = Appended(t) /\ u # t
                /\ HasMain(u) /\ u.cls = t.cls /\ u.syn
                /\ t.main = "none" => u.main = "std"
    /\ (pc = "run" /\ execs = 0) =>
          /\ AddMainBlock(files[StepPath]) = files[StepPath]
          /\ HasMain(files[StepPath])

C26_Witness ==
    /\ pc = "run" /\ execs = 0
    /\ files[StepPath] = Text(TRUE, "Step", "std")
    /\ step_counter = 2 /\ files[StepFilename(1)] = BrokenText

\* Ordinals the file name is examined on: those of the plan and the ones
\* around a change of width.
PathOrdinals == (1..MaxSteps) \cup {9, 10, 11, 99, 100, 101, 999, 1000}

\* C27: the path of a step's artifact is a function of its ordinal from which
\* the ordinal can be read back, so distinct ordinals have distinct paths;
\* the first save and every repair of a step write the path of that step's
\* ordinal, which does not change while the step is processed; a step of the
\* run changes no artifact of another ordinal, and none at all outside the
\* save and the repair.
C27_OnePathPerOrdinal ==
    [][ /\ \A n \in PathOrdinals :
              /\ DigitsValue(StepFilename(n)) = n
              /\ Len(StepFilename(n)) >= 3
              /\ n < 1000 => Len(StepFilename(n)) = 3
        /\ \A n \in 1..MaxSteps :
              files'[StepFilename(n)] # files[StepFilename(n)] =>
                 /\ n = step_counter
                 /\ pc \in {"persist", "repair"}
        /\ (pc \in {"persist", "run", "repair"} /\ pc' \in {"run", "repair", "collect"}) =>
              step_counter' = step_counter
        /\ pc = "persist" =>
              \/ files'[StepFilename(step_counter)] = AddMainBlock(step_code)
              \/ files' = files
        /\ pc = "repair" =>
              \/ files'[StepFilename(step_counter)] \in CorrectedTexts /\ writes' = writes + 1
              \/ files' = files ]_vars

C27_Witness ==
    /\ pc = "run" /\ step_counter = 2 /\ writes = 1
    /\ files[StepFilename(2)] = BrokenText
    /\ files[StepFilename(1)] = Text(TRUE, "Other", "own")
    /\ executed_steps = <<StepFilename(1)>>

\* C28 as stated: after a failed run on the local backend, of a step or of
\* the composite, the error text handed to the repair is never empty.
C28_LocalFailureHasText ==
    (pc \in {"repair", "fix_main"} /\ last_backend = "local") =>
        /\ ~success
        /\ output_or_error # ""

\* C29: when every call returns, the run ends: whatever the plan, the budget
\* and the answers of the backends and the oracle, the process reaches its
\* exit, with exit code 0 or 1; so every loop that was entered, a step's or
\* the composite's, was left again.
C29_RunTerminates == <>(pc = "exit" /\ exit_code \in {0, 1})

C29_Witness ==
    /\ pc = "exit" /\ exit_code = 0
    /\ max_retries = 2 /\ visited = <<1, 2, 3>>
    /\ Len(executed_steps) = 2 /\ 3 \notin loop_ok
    /\ Len(transfer_targets) = 1

\* The artifact of the loop that is running.
LoopArtifact == IF pc \in {"exec_main", "fix_main"} THEN main_file ELSE files[StepPath]

LoopArtifactNext ==
    IF pc \in {"exec_main", "fix_main"} THEN main_file' ELSE files'[StepPath]

\* C30 as stated: a loop that ended by exhaustion with a budget of at least
\* one has called the repair oracle max_retries times and its artifact holds
\* a correction, the last one written.
C30_Original ==
    (pc = "collect" /\ outcome = "exhausted" /\ max_retries >= 1) =>
        /\ fix_calls = max_retries
        /\ files[StepPath] \in CorrectedTexts

\* C30: in every loop the executions are the repair calls or one more.  The
\* turn that exhausts the budget is a repair: with it the oracle has been
\* called max_retries times, each correction was handed to the update of
\* the artifact (which holds it unless that write failed), max_retries
\* executions were made, and the loop returns without another execution.  A
\* success at execution k comes after exactly k - 1 repair calls.
C30_RepairsTrailExecutions ==
    [][ /\ execs - fix_calls \in {0, 1}
        /\ execs' - fix_calls' \in {0, 1}
        /\ (pc \in {"repair", "fix_main"} /\ outcome' = "exhausted") =>
              /\ fix_calls' = max_retries /\ writes' = max_retries
              /\ execs' = max_retries /\ execs = max_retries
              /\ pc' \in {"collect", "exit"}
              /\ \/ LoopArtifactNext \in CorrectedTexts \cup CorrectedMains
                 \/ LoopArtifactNext = LoopArtifact
        /\ (pc = "collect" /\ outcome = "exhausted") =>
              /\ pc' \in {"generate", "after_steps"}
              /\ files' = files /\ executed_steps' = executed_steps
        /\ (pc = "run" /\ success') =>
              fix_calls' = execs' - 1 /\ writes' = fix_calls'
        /\ (pc = "exec_main" /\ success') =>
              fix_calls = execs /\ writes = fix_calls ]_vars

C30_Witness ==
    /\ pc = "collect" /\ outcome = "exhausted"
    /\ max_retries = 2 /\ execs = 2 /\ fix_calls = 2 /\ writes = 2
    /\ files[StepPath] = Text(TRUE, "Other", "own")

\* C31: the scan of process_steps stops at the first target that lists the
\* ordinal and takes the flag of that target and of no other: the loop is
\* entered with that target's execute_remotely, every execution of the step
\* is remote exactly when that flag is true, and a step whose first listing
\* target has the flag false runs locally, with no connection made, also when
\* a later target lists it with the flag true.
C31_FirstListingAloneDecides ==
    [][ LET listing == Listing(step_counter)
            first == IF listing = {} THEN 0 ELSE FirstOf(listing)
            flag == first # 0 /\ remote_servers[first].execute_remotely
            later == \E j \in listing :
                        j > first /\ remote_servers[j].execute_remotely
        IN /\ (pc = "persist" /\ pc' \in {"run", "collect"}) =>
                 /\ server_config' = first
                 /\ execute_remotely' = flag
           /\ pc = "run" =>
                 /\ server_config = first /\ execute_remotely = flag
                 /\ (last_backend' = "remote") <=> flag
                 /\ (~flag /\ later) =>
                       /\ last_backend' = "local"
                       /\ transport' = NoTransport /\ ssh_client' = "none" ]_vars

C31_Witness ==
    /\ pc = "repair" /\ step_counter = 2 /\ execs = 1
    /\ last_backend = "local" /\ transport = NoTransport
    /\ server_config = 2 /\ ~execute_remotely
    /\ 2 \in remote_servers[3].steps_to_execute /\ remote_servers[3].execute_remotely

\* C32: a Remote run that connected, copied the artifact and got the remote
\* command's output back reports success exactly when the captured stderr is
\* empty; the exit status is not read. A run that wrote to stderr is a
\* failure carrying that text also when the command exited with status 0,
\* and a run that exited non-zero with empty stderr is a success.
C32_RemoteVerdictIsStderrOnly ==
    [][ (pc = "run" /\ last_backend' = "remote"
            /\ transport'.copied = 1 /\ remote_command'.ran) =>
          /\ (pc' = "collect" /\ success' /\ outcome' = "succeeded")
                <=> remote_command'.err = ""
          /\ remote_command'.err # "" =>
                /\ pc' = "repair" /\ ~success'
                /\ output_or_error' = remote_command'.err
          /\ remote_command'.status \in {0, 1}
          /\ ssh_client' = "closed" ]_vars

C32_Witness ==
    /\ pc = "collect" /\ success /\ last_backend = "remote"
    /\ transport.copied = 1
    /\ remote_command.ran /\ remote_command.status = 1 /\ remote_command.err = ""

\* C32, the other direction of the witness: a remote command that exits with
\* status 0 after writing to stderr is reported as a failure.
C32_WarningIsFailure ==
    /\ pc = "repair" /\ ~success /\ last_backend = "remote"
    /\ remote_command.ran /\ remote_command.status = 0
    /\ remote_command.err = "stderr" /\ output_or_error = "stderr"

Attempted == { transfer_targets[k] : k \in 1..Len(transfer_targets) }

\* C34: a transfer that returned False is only recorded: every eligible
\* target that comes after a failed one in configuration order and that the
\* loop has passed was attempted all the same, the loop is left only at the
\* end of the list, and a run whose composite succeeded ends with status 0
\* with every eligible target attempted, whichever transfers failed.
C34_TransferFailureChangesNothing ==
    /\ failed_transfers \subseteq Attempted
    /\ \A i \in failed_transfers :
          \A j \in (i + 1)..(deploy_idx - 1) : IsEligible(j) => j \in Attempted
    /\ failed_transfers # {} =>
          /\ pc \in {"deploy", "exit"}
          /\ success /\ outcome = "succeeded"
    /\ (pc = "exit" /\ success /\ outcome = "succeeded") =>
          /\ exit_code = 0
          /\ deploy_idx = Len(remote_servers) + 1
          /\ \A j \in 1..Len(remote_servers) : IsEligible(j) => j \in Attempted

C34_Witness ==
    /\ pc = "exit" /\ exit_code = 0
    /\ failed_transfers = {3}
    /\ transfer_targets = <<3, 4>> /\ last_transfer = [server |-> 4, ok |-> TRUE]

====
